---- MODULE Spec2Model ----
(***************************************************************************)
(* A model of the DNS packet codec of tedbyron/dns-server:                 *)
(*   src/src/packet_parser.rs  BytePacketBuffer and the decoders           *)
(*   src/src/stub_resolver.rs  the encoders                                *)
(* Strings are sequences of bytes (every name used here is ASCII), the     *)
(* buffer is a function 0..511 -> 0..255, and an anyhow error is the text   *)
(* of its message.                                                         *)
(***************************************************************************)
EXTENDS Integers, Sequences, FiniteSets, TLC

VARIABLES
    scn,              \* what the caller put in the buffer and means to call (never changes)
    buf,              \* BytePacketBuffer.buf : [u8; 512]
    pos,              \* BytePacketBuffer.pos : usize
    touched,          \* greatest index at which buf has been indexed, -1 if none
    script,           \* the calls the caller still has to make on the buffer
    top,              \* the public call in progress, "none" between calls
    pc,               \* the position inside the call in progress
    qpos,             \* read_qname: let mut pos
    jumped,           \* read_qname: let mut jumped
    jumps_performed,  \* read_qname: let mut jumps_performed
    delim,            \* read_qname: let mut delim
    outstr,           \* read_qname: outstr
    start,            \* the cursor when the current call / entry began
    res,              \* from_buffer: let mut res (the packet being decoded)
    sect,             \* from_buffer / write: which of the four loops is running
    idx,              \* from_buffer / write: the loop counter of that loop
    msg,              \* write: self (the packet being encoded)
    results           \* what each finished call returned, in order

vars == <<scn, buf, pos, touched, script, top, pc, qpos, jumped, jumps_performed,
          delim, outstr, start, res, sect, idx, msg, results>>

----------------------------------------------------------------------------
(* Program constants *)

BufSize == 512
max_jumps == 5
LabelLimit == 63

----------------------------------------------------------------------------
(* Machine integers: Rust's u8/u16/u32 operators on naturals *)

Pow2(n) == 2 ^ n
Shr(x, k) == x \div Pow2(k)
Shl(x, k, w) == (x * Pow2(k)) % Pow2(w)

RECURSIVE BitAnd(_, _)
BitAnd(x, y) ==
    IF x = 0 \/ y = 0 THEN 0
    ELSE ((x % 2) * (y % 2)) + (2 * BitAnd(x \div 2, y \div 2))

RECURSIVE BitOr(_, _)
BitOr(x, y) ==
    IF x = 0 THEN y
    ELSE IF y = 0 THEN x
    ELSE (IF (x % 2) + (y % 2) > 0 THEN 1 ELSE 0) + (2 * BitOr(x \div 2, y \div 2))

RECURSIVE BitXor(_, _)
BitXor(x, y) ==
    IF x = 0 THEN y
    ELSE IF y = 0 THEN x
    ELSE (((x % 2) + (y % 2)) % 2) + (2 * BitXor(x \div 2, y \div 2))

BoolU8(b) == IF b THEN 1 ELSE 0

Max(a, b) == IF a >= b THEN a ELSE b

----------------------------------------------------------------------------
(* BytePacketBuffer.  A buffer value is [buf, pos, touched]; an operation    *)
(* returns [ok, err, val, b]: Ok(val) or Err(message), and the buffer after. *)

Ok(b, v) == [ok |-> TRUE, err |-> "", val |-> v, b |-> b]
Fail(b, e) == [ok |-> FALSE, err |-> e, val |-> 0, b |-> b]

\* let x = r?; F(x): the value of r is computed once and, when it is Ok,
\* handed to what follows; an Err is returned as it is
Bind(r, F(_)) == CHOOSE y \in {IF x.ok THEN F(x) ELSE x : x \in {r}} : TRUE

\* let x = v; F(x): v is computed once
Let(v, F(_)) == CHOOSE y \in {F(x) : x \in {v}} : TRUE

\* self.buf[i]: Rust panics when i is outside the array
Index(b, i) ==
    IF i \in DOMAIN b.buf
    THEN Ok([b EXCEPT !.touched = Max(@, i)], b.buf[i])
    ELSE Fail([b EXCEPT !.touched = Max(@, i)], "panic: index out of bounds")

step(b, steps) == Ok([b EXCEPT !.pos = @ + steps], 0)

seek(b, p) == Ok([b EXCEPT !.pos = p], 0)

ReadAtEnd(p) == p >= BufSize

read(b) ==
    IF ReadAtEnd(b.pos) THEN Fail(b, "End of buffer")
    ELSE Bind(Index(b, b.pos), LAMBDA r : Ok([r.b EXCEPT !.pos = @ + 1], r.val))

GetAtEndMutant(p) == p > BufSize
GetAtEnd(p) == p >= BufSize

get(b, p) ==
    IF GetAtEnd(p) THEN Fail(b, "End of buffer") ELSE Index(b, p)

RangeAtEnd(first, len) == first + len >= BufSize

\* &self.buf[start..start + len]
get_range(b, first, len) ==
    IF RangeAtEnd(first, len) THEN Fail(b, "End of buffer")
    ELSE IF first + len > BufSize
         THEN Fail([b EXCEPT !.touched = Max(@, first + len - 1)],
                   "panic: range end index out of range")
         ELSE Ok([b EXCEPT !.touched = IF len > 0 THEN Max(@, first + len - 1) ELSE @],
                 [i \in 1..len |-> b.buf[first + i - 1]])

read_u16(b) ==
    Bind(read(b), LAMBDA r1 :
    Bind(read(r1.b), LAMBDA r2 :
    Ok(r2.b, BitOr(Shl(r1.val, 8, 16), r2.val))))

\* a u32 is held as its two 16-bit halves <<high, low>>, so that
\* (b1 << 24) | (b2 << 16) | (b3 << 8) | b4 is <<(b1 << 8) | b2, (b3 << 8) | b4>>
read_u32(b) ==
    Bind(read(b), LAMBDA r1 :
    Bind(read(r1.b), LAMBDA r2 :
    Bind(read(r2.b), LAMBDA r3 :
    Bind(read(r3.b), LAMBDA r4 :
    Ok(r4.b, <<BitOr(Shl(r1.val, 8, 16), r2.val),
               BitOr(Shl(r3.val, 8, 16), r4.val)>>)))))

WriteAtEnd(p) == p >= BufSize

write(b, val) ==
    IF WriteAtEnd(b.pos) THEN Fail(b, "End of buf")
    ELSE IF b.pos \in DOMAIN b.buf
         THEN Ok([b EXCEPT !.buf[b.pos] = val, !.touched = Max(@, b.pos),
                           !.pos = @ + 1], 0)
         ELSE Fail([b EXCEPT !.touched = Max(@, b.pos)], "panic: index out of bounds")

write_u8(b, val) == write(b, val)

write_u16(b, val) ==
    Bind(write(b, Shr(val, 8) % 256), LAMBDA r1 :
    write(r1.b, BitAnd(val, 255)))

\* (val >> 24) & 0xFF is the high byte of the high half, and so on
write_u32(b, val) ==
    Bind(write(b, BitAnd(Shr(val[1], 8), 255)), LAMBDA r1 :
    Bind(write(r1.b, BitAnd(val[1], 255)), LAMBDA r2 :
    Bind(write(r2.b, BitAnd(Shr(val[2], 8), 255)), LAMBDA r3 :
    write(r3.b, BitAnd(val[2], 255)))))

----------------------------------------------------------------------------
(* Strings *)

Dot == 46

\* the position of the first '.' in s, 0 when there is none
FirstDot(s) ==
    Let({i \in 1..Len(s) : s[i] = Dot}, LAMBDA dots :
        IF dots = {} THEN 0 ELSE CHOOSE i \in dots : \A j \in dots : i <= j)

\* qname.split('.'): "" gives one empty label, "a." gives "a" and ""
RECURSIVE Split(_)
Split(s) ==
    Let(FirstDot(s), LAMBDA i :
        IF i = 0 THEN <<s>>
        ELSE <<SubSeq(s, 1, i - 1)>>
             \o Let(SubSeq(s, i + 1, Len(s)), LAMBDA rest : Split(rest)))

\* char::to_lowercase on one ASCII byte
LowerByte(c) == IF c >= 65 /\ c <= 90 THEN c + 32 ELSE c

\* String::from_utf8_lossy(str_buf).to_lowercase() on ASCII bytes; a byte
\* of 0x80 or more that starts no UTF-8 sequence becomes U+FFFD (EF BF BD)
RECURSIVE LossyLower(_)
LossyLower(bytes) ==
    IF bytes = <<>> THEN <<>>
    ELSE (IF Head(bytes) < 128 THEN <<LowerByte(Head(bytes))>> ELSE <<239, 191, 189>>)
         \o LossyLower(Tail(bytes))

\* str::to_lowercase of a whole ASCII name
Lower(s) == [i \in 1..Len(s) |-> LowerByte(s[i])]

----------------------------------------------------------------------------
(* BytePacketBuffer::write_qname *)

\* the limit taken one too high
LabelTooLongMutant(len) == len > LabelLimit + 1
\* if len > 0x3f
LabelTooLong(len) == len > LabelLimit

\* for &b in label.as_bytes() { self.write_u8(b)? }: the bytes are written
\* one after the other, the first half of them and then the second half
RECURSIVE WriteBytes(_, _)
WriteBytes(b, bytes) ==
    IF bytes = <<>> THEN Ok(b, 0)
    ELSE IF Len(bytes) = 1 THEN write_u8(b, bytes[1])
    ELSE Let(SubSeq(bytes, 1, Len(bytes) \div 2), LAMBDA first :
         Let(SubSeq(bytes, Len(first) + 1, Len(bytes)), LAMBDA second :
         Bind(WriteBytes(b, first), LAMBDA r : WriteBytes(r.b, second))))

\* for label in qname.split('.') { ... }
RECURSIVE WriteLabels(_, _)
WriteLabels(b, labels) ==
    IF labels = <<>> THEN Ok(b, 0)
    ELSE Let(Head(labels), LAMBDA label :
         IF LabelTooLong(Len(label))
         THEN Fail(b, "Label exceeds 63 character limit")
         ELSE Bind(write_u8(b, Len(label)), LAMBDA r1 :
              Bind(WriteBytes(r1.b, label), LAMBDA r2 :
              Let(Tail(labels), LAMBDA rest : WriteLabels(r2.b, rest)))))

write_qname(b, qname) ==
    Let(Split(qname), LAMBDA labels :
    Bind(WriteLabels(b, labels), LAMBDA r : write_u8(r.b, 0)))

----------------------------------------------------------------------------
(* ResultCode, QueryType *)

\* impl From<u8> for ResultCode
ResultCode_from(n) ==
    CASE n = 1 -> "FORMERR"
      [] n = 2 -> "SERVFAIL"
      [] n = 3 -> "NXDOMAIN"
      [] n = 4 -> "NOTIMP"
      [] n = 5 -> "REFUSED"
      [] OTHER -> "NOERROR"

\* self.rescode as u8: the enum's discriminant
ResultCode_u8(r) ==
    CASE r = "NOERROR" -> 0
      [] r = "FORMERR" -> 1
      [] r = "SERVFAIL" -> 2
      [] r = "NXDOMAIN" -> 3
      [] r = "NOTIMP" -> 4
      [] r = "REFUSED" -> 5

QA == [t |-> "A", n |-> 1]
QUnknown(n) == [t |-> "UNKNOWN", n |-> n]

\* impl From<u16> for QueryType
QueryType_from(n) == IF n = 1 THEN QA ELSE QUnknown(n)

\* impl From<QueryType> for u16
QueryType_u16(t) == IF t.t = "A" THEN 1 ELSE t.n

----------------------------------------------------------------------------
(* DnsHeader *)

DnsHeader_new ==
    [id |-> 0,
     recursion_desired |-> FALSE, truncated_message |-> FALSE,
     authoritative_answer |-> FALSE, opcode |-> 0, response |-> FALSE,
     rescode |-> "NOERROR", checking_disabled |-> FALSE, authed_data |-> FALSE,
     z |-> FALSE, recursion_available |-> FALSE,
     questions |-> 0, answers |-> 0, authoritative_entries |-> 0,
     resource_entries |-> 0]

\* the opcode taken without its mask: (a >> 3)
HeaderFlagsMutant(h, flags) ==
    LET a == Shr(flags, 8) % 256
        b == BitAnd(flags, 255)
    IN  [h EXCEPT
           !.recursion_desired = BitAnd(a, 1) > 0,
           !.truncated_message = BitAnd(a, Shl(1, 1, 8)) > 0,
           !.authoritative_answer = BitAnd(a, Shl(1, 2, 8)) > 0,
           !.opcode = Shr(a, 3),
           !.response = BitAnd(a, Shl(1, 7, 8)) > 0,
           !.rescode = ResultCode_from(BitAnd(b, 15)),
           !.checking_disabled = BitAnd(b, Shl(1, 4, 8)) > 0,
           !.authed_data = BitAnd(b, Shl(1, 5, 8)) > 0,
           !.z = BitAnd(b, Shl(1, 6, 8)) > 0,
           !.recursion_available = BitAnd(b, Shl(1, 7, 8)) > 0]

\* the flag fields DnsHeader::read takes out of the 16-bit flags word
HeaderFlags(h, flags) ==
    LET a == Shr(flags, 8) % 256
        b == BitAnd(flags, 255)
    IN  [h EXCEPT
           !.recursion_desired = BitAnd(a, 1) > 0,
           !.truncated_message = BitAnd(a, Shl(1, 1, 8)) > 0,
           !.authoritative_answer = BitAnd(a, Shl(1, 2, 8)) > 0,
           !.opcode = BitAnd(Shr(a, 3), 15),
           !.response = BitAnd(a, Shl(1, 7, 8)) > 0,
           !.rescode = ResultCode_from(BitAnd(b, 15)),
           !.checking_disabled = BitAnd(b, Shl(1, 4, 8)) > 0,
           !.authed_data = BitAnd(b, Shl(1, 5, 8)) > 0,
           !.z = BitAnd(b, Shl(1, 6, 8)) > 0,
           !.recursion_available = BitAnd(b, Shl(1, 7, 8)) > 0]

DnsHeader_read(h, b) ==
    Bind(read_u16(b), LAMBDA r1 :
    Bind(read_u16(r1.b), LAMBDA r2 :
    Bind(read_u16(r2.b), LAMBDA r3 :
    Bind(read_u16(r3.b), LAMBDA r4 :
    Bind(read_u16(r4.b), LAMBDA r5 :
    Bind(read_u16(r5.b), LAMBDA r6 :
    Ok(r6.b, [HeaderFlags([h EXCEPT !.id = r1.val], r2.val) EXCEPT
                !.questions = r3.val, !.answers = r4.val,
                !.authoritative_entries = r5.val,
                !.resource_entries = r6.val])))))))

\* the two flag bytes DnsHeader::write builds; opcode << 3 is a u8 shift
FlagsByteA(h) ==
    BitOr(BitOr(BitOr(BitOr(BoolU8(h.recursion_desired),
                            Shl(BoolU8(h.truncated_message), 1, 8)),
                      Shl(BoolU8(h.authoritative_answer), 2, 8)),
                Shl(h.opcode, 3, 8)),
          Shl(BoolU8(h.response), 7, 8))

FlagsByteB(h) ==
    BitOr(BitOr(BitOr(BitOr(ResultCode_u8(h.rescode),
                            Shl(BoolU8(h.checking_disabled), 4, 8)),
                      Shl(BoolU8(h.authed_data), 5, 8)),
                Shl(BoolU8(h.z), 6, 8)),
          Shl(BoolU8(h.recursion_available), 7, 8))

DnsHeader_write(h, b) ==
    Bind(write_u16(b, h.id), LAMBDA r1 :
    Bind(write_u8(r1.b, FlagsByteA(h)), LAMBDA r2 :
    Bind(write_u8(r2.b, FlagsByteB(h)), LAMBDA r3 :
    Bind(write_u16(r3.b, h.questions), LAMBDA r4 :
    Bind(write_u16(r4.b, h.answers), LAMBDA r5 :
    Bind(write_u16(r5.b, h.authoritative_entries), LAMBDA r6 :
    write_u16(r6.b, h.resource_entries)))))))

----------------------------------------------------------------------------
(* DnsQuestion, DnsRecord: what follows the name on decode, and the encoders *)

\* DnsQuestion::read after read_qname has filled self.name
DnsQuestion_read_rest(name, b) ==
    Bind(read_u16(b), LAMBDA r1 :
    Bind(read_u16(r1.b), LAMBDA r2 :
    Ok(r2.b, [name |-> name, qtype |-> QueryType_from(r1.val)])))

DnsQuestion_write(q, b) ==
    Bind(write_qname(b, q.name), LAMBDA r1 :
    Bind(write_u16(r1.b, QueryType_u16(q.qtype)), LAMBDA r2 :
    write_u16(r2.b, 1)))

RecA(domain, addr, ttl) == [t |-> "A", domain |-> domain, addr |-> addr, ttl |-> ttl]
RecUnknown(domain, qtype, data_len, ttl) ==
    [t |-> "UNKNOWN", domain |-> domain, qtype |-> qtype, data_len |-> data_len,
     ttl |-> ttl]

\* Ipv4Addr::new from the four bytes of raw_addr
AddrOf(raw_addr) ==
    <<BitAnd(Shr(raw_addr[1], 8), 255), BitAnd(raw_addr[1], 255),
      BitAnd(Shr(raw_addr[2], 8), 255), BitAnd(raw_addr[2], 255)>>

\* buf.step(data_len as usize) of the UNKNOWN arm
UnknownSkipMutant(data_len) == 0
UnknownSkip(data_len) == data_len

\* DnsRecord::read after read_qname has filled domain
DnsRecord_read_rest(domain, b) ==
    Bind(read_u16(b), LAMBDA r1 :
    Bind(read_u16(r1.b), LAMBDA r2 :
    Bind(read_u32(r2.b), LAMBDA r3 :
    Bind(read_u16(r3.b), LAMBDA r4 :
    IF QueryType_from(r1.val).t = "A"
    THEN Bind(read_u32(r4.b), LAMBDA r5 :
         Ok(r5.b, RecA(domain, AddrOf(r5.val), r3.val)))
    ELSE Bind(step(r4.b, UnknownSkip(r4.val)), LAMBDA r5 :
         Ok(r5.b, RecUnknown(domain, r1.val, r4.val, r3.val)))))))

\* returns Ok(buffer.pos() - start_pos)
DnsRecord_write(rec, b) ==
    IF rec.t = "A"
    THEN Bind(write_qname(b, rec.domain), LAMBDA r1 :
         Bind(write_u16(r1.b, QueryType_u16(QA)), LAMBDA r2 :
         Bind(write_u16(r2.b, 1), LAMBDA r3 :
         Bind(write_u32(r3.b, rec.ttl), LAMBDA r4 :
         Bind(write_u16(r4.b, 4), LAMBDA r5 :
         Bind(WriteBytes(r5.b, rec.addr), LAMBDA r6 :
         Ok(r6.b, r6.b.pos - b.pos)))))))
    ELSE Ok(b, b.pos - b.pos)

DnsPacket_new ==
    [header |-> DnsHeader_new, questions |-> <<>>, answers |-> <<>>,
     authorities |-> <<>>, resources |-> <<>>]

----------------------------------------------------------------------------
(* The state machine: a caller makes the calls of its script, one after the  *)
(* other, on one buffer; read_qname and the loops of from_buffer and write   *)
(* run one iteration per step.                                             *)

Cur == [buf |-> buf, pos |-> pos, touched |-> touched]

SetBuf(b) == buf' = b.buf /\ pos' = b.pos /\ touched' = b.touched

qlocals == <<qpos, jumped, jumps_performed, delim, outstr>>

\* the call in progress returns
Return(ok, err, val, endpos) ==
    /\ results' = Append(results, [op |-> top, at |-> start, ok |-> ok, err |-> err,
                                   val |-> val, endpos |-> endpos])
    /\ top' = "none"
    /\ pc' = "idle"

Calling(op) == top = "none" /\ script # <<>> /\ Head(script).op = op

\* let mut pos = self.pos(); let mut jumped = false; ... let mut delim = "";
EnterQname ==
    /\ qpos' = pos
    /\ jumped' = FALSE
    /\ jumps_performed' = 0
    /\ delim' = <<>>
    /\ outstr' = <<>>
    /\ pc' = "qname"

\* the caller sets the pub field pos
SetPos ==
    /\ Calling("seek")
    /\ pos' = Head(script).arg
    /\ script' = Tail(script)
    /\ UNCHANGED <<scn, buf, touched, top, pc, qlocals, start, res, sect, idx, msg,
                   results>>

CallReadQname ==
    /\ \/ Calling("read_qname")
       \/ Calling("question_read")
       \/ Calling("record_read")
    /\ top' = Head(script).op
    /\ script' = Tail(script)
    /\ start' = pos
    /\ EnterQname
    /\ UNCHANGED <<scn, buf, pos, touched, res, sect, idx, msg, results>>

JumpLimitMutant(n) == n >= max_jumps
JumpLimit(n) == n > max_jumps

IsJump(len) == BitAnd(len, 192) = 192

JumpOffsetMutant(len, b2) == b2
JumpOffset(len, b2) == BitOr(Shl(BitXor(len, 192), 8, 16), b2)

NextJumpsMutant(n) == n
NextJumps(n) == n + 1

\* the shared cursor moved at every pointer, jumped or not
PointerSeekMutant(j, b, q) == seek(b, q + 2).b
\* if !jumped { self.seek(pos + 2)?; }
PointerSeek(j, b, q) == IF ~j THEN seek(b, q + 2).b ELSE b

\* where the call goes when read_qname has returned Ok
AfterQname ==
    IF top = "question_read" \/ (top = "from_buffer" /\ sect = 0) THEN "question_rest"
    ELSE "record_rest"

\* one iteration of the loop of read_qname; the last one also runs the code
\* after the loop
QnameStep ==
    /\ pc = "qname"
    /\ UNCHANGED <<scn, script, start, res, sect, idx, msg>>
    /\ IF JumpLimit(jumps_performed)
       THEN /\ Return(FALSE, "Limit of 5 jumps exceeded", 0, pos)
            /\ UNCHANGED <<buf, pos, touched, qlocals>>
       ELSE \E g \in {get(Cur, qpos)} :
            IF ~g.ok
            THEN /\ Return(FALSE, g.err, 0, g.b.pos)
                 /\ SetBuf(g.b)
                 /\ UNCHANGED qlocals
            ELSE IF IsJump(g.val)
            THEN \E g2 \in {get(PointerSeek(jumped, g.b, qpos), qpos + 1)} :
                     /\ SetBuf(g2.b)
                     /\ IF ~g2.ok
                        THEN /\ Return(FALSE, g2.err, 0, g2.b.pos)
                             /\ UNCHANGED qlocals
                        ELSE /\ qpos' = JumpOffset(g.val, g2.val)
                             /\ jumped' = TRUE
                             /\ jumps_performed' = NextJumps(jumps_performed)
                             /\ UNCHANGED <<delim, outstr, top, pc, results>>
            ELSE IF g.val = 0
            THEN \E fin \in {IF ~jumped THEN seek(g.b, qpos + 1).b ELSE g.b} :
                     /\ SetBuf(fin)
                     /\ qpos' = qpos + 1
                     /\ UNCHANGED <<jumped, jumps_performed, delim, outstr>>
                     /\ IF top = "read_qname"
                        THEN Return(TRUE, "", outstr, fin.pos)
                        ELSE /\ pc' = AfterQname
                             /\ UNCHANGED <<top, results>>
            ELSE \E gr \in {get_range(g.b, qpos + 1, g.val)} :
                     /\ SetBuf(gr.b)
                     /\ IF ~gr.ok
                        THEN /\ Return(FALSE, gr.err, 0, gr.b.pos)
                             /\ qpos' = qpos + 1
                             /\ outstr' = outstr \o delim
                             /\ UNCHANGED <<jumped, jumps_performed, delim>>
                        ELSE /\ outstr' = outstr \o delim \o LossyLower(gr.val)
                             /\ delim' = <<Dot>>
                             /\ qpos' = qpos + 1 + g.val
                             /\ UNCHANGED <<jumped, jumps_performed, top, pc, results>>

\* DnsQuestion::read after the name
QuestionRest ==
    /\ pc = "question_rest"
    /\ \E r \in {DnsQuestion_read_rest(outstr, Cur)} :
       /\ SetBuf(r.b)
       /\ IF ~r.ok
          THEN /\ Return(FALSE, r.err, 0, r.b.pos)
               /\ UNCHANGED <<res, idx>>
          ELSE IF top = "from_buffer"
          THEN /\ res' = [res EXCEPT !.questions = Append(@, r.val)]
               /\ idx' = idx + 1
               /\ pc' = "loop"
               /\ UNCHANGED <<top, results>>
          ELSE /\ Return(TRUE, "", r.val, r.b.pos)
               /\ UNCHANGED <<res, idx>>
    /\ UNCHANGED <<scn, script, qlocals, start, sect, msg>>

SectionField(s) ==
    CASE s = 0 -> "questions"
      [] s = 1 -> "answers"
      [] s = 2 -> "authorities"
      [] s = 3 -> "resources"

\* DnsRecord::read after the name
RecordRest ==
    /\ pc = "record_rest"
    /\ \E r \in {DnsRecord_read_rest(outstr, Cur)} :
       /\ SetBuf(r.b)
       /\ IF ~r.ok
          THEN /\ Return(FALSE, r.err, 0, r.b.pos)
               /\ UNCHANGED <<res, idx>>
          ELSE IF top = "from_buffer"
          THEN /\ res' = [res EXCEPT ![SectionField(sect)] = Append(@, r.val)]
               /\ idx' = idx + 1
               /\ pc' = "loop"
               /\ UNCHANGED <<top, results>>
          ELSE /\ Return(TRUE, "", r.val, r.b.pos)
               /\ UNCHANGED <<res, idx>>
    /\ UNCHANGED <<scn, script, qlocals, start, sect, msg>>

\* DnsPacket::from_buffer, DnsHeader::read: the call begins
CallHeaderRead ==
    /\ \/ Calling("from_buffer")
       \/ Calling("header_read")
    /\ top' = Head(script).op
    /\ script' = Tail(script)
    /\ start' = pos
    /\ res' = DnsPacket_new
    /\ pc' = "header"
    /\ UNCHANGED <<scn, buf, pos, touched, qlocals, sect, idx, msg, results>>

\* res.header.read(buf)?
HeaderRead ==
    /\ pc = "header"
    /\ \E r \in {DnsHeader_read(res.header, Cur)} :
       /\ SetBuf(r.b)
       /\ IF ~r.ok
          THEN /\ Return(FALSE, r.err, 0, r.b.pos)
               /\ UNCHANGED <<res, sect, idx>>
          ELSE IF top = "from_buffer"
          THEN /\ res' = [res EXCEPT !.header = r.val]
               /\ sect' = 0
               /\ idx' = 0
               /\ pc' = "loop"
               /\ UNCHANGED <<top, results>>
          ELSE /\ Return(TRUE, "", r.val, r.b.pos)
               /\ UNCHANGED <<res, sect, idx>>
    /\ UNCHANGED <<scn, script, qlocals, start, msg>>

\* the range of the for loop of section s of from_buffer
SectionCount(h, s) ==
    CASE s = 0 -> h.questions
      [] s = 1 -> h.answers
      [] s = 2 -> h.authoritative_entries
      [] s = 3 -> h.resource_entries

\* the head of the four for loops of from_buffer, and its Ok(res)
SectionLoop ==
    /\ pc = "loop"
    /\ top = "from_buffer"
    /\ UNCHANGED <<scn, buf, pos, touched, script, start, res, msg>>
    /\ IF idx < SectionCount(res.header, sect)
       THEN /\ EnterQname
            /\ UNCHANGED <<top, sect, idx, results>>
       ELSE IF sect < 3
       THEN /\ sect' = sect + 1
            /\ idx' = 0
            /\ UNCHANGED <<top, pc, qlocals, results>>
       ELSE /\ Return(TRUE, "", res, pos)
            /\ UNCHANGED <<sect, idx, qlocals>>

\* v.len() as u16
AsU16(n) == n % 65536

\* DnsPacket::write: the counts are taken from the sections, the call begins
CallWrite ==
    /\ Calling("write")
    /\ top' = "write"
    /\ script' = Tail(script)
    /\ start' = pos
    /\ msg' = LET m == Head(script).arg IN
              [m EXCEPT !.header.questions = AsU16(Len(m.questions)),
                        !.header.answers = AsU16(Len(m.answers)),
                        !.header.authoritative_entries = AsU16(Len(m.authorities)),
                        !.header.resource_entries = AsU16(Len(m.resources))]
    /\ pc' = "w_header"
    /\ UNCHANGED <<scn, buf, pos, touched, qlocals, res, sect, idx, results>>

\* self.header.write(buffer)?
WriteHeader ==
    /\ pc = "w_header"
    /\ \E r \in {DnsHeader_write(msg.header, Cur)} :
       /\ SetBuf(r.b)
       /\ IF ~r.ok
          THEN /\ Return(FALSE, r.err, 0, r.b.pos)
               /\ UNCHANGED <<sect, idx>>
          ELSE /\ sect' = 0
               /\ idx' = 0
               /\ pc' = "w_loop"
               /\ UNCHANGED <<top, results>>
    /\ UNCHANGED <<scn, script, qlocals, start, res, msg>>

\* one iteration of the four for loops of DnsPacket::write, and its Ok(())
WriteLoop ==
    /\ pc = "w_loop"
    /\ UNCHANGED <<scn, script, qlocals, start, res, msg>>
    /\ LET entries == msg[SectionField(sect)] IN
       IF idx < Len(entries)
       THEN \E r \in {IF sect = 0 THEN DnsQuestion_write(entries[idx + 1], Cur)
                       ELSE DnsRecord_write(entries[idx + 1], Cur)} :
                /\ SetBuf(r.b)
                /\ IF ~r.ok
                   THEN /\ Return(FALSE, r.err, 0, r.b.pos)
                        /\ UNCHANGED <<sect, idx>>
                   ELSE /\ idx' = idx + 1
                        /\ UNCHANGED <<top, pc, sect, results>>
       ELSE IF sect < 3
       THEN /\ sect' = sect + 1
            /\ idx' = 0
            /\ UNCHANGED <<buf, pos, touched, top, pc, results>>
       ELSE /\ Return(TRUE, "", 0, pos)
            /\ UNCHANGED <<buf, pos, touched, sect, idx>>

\* DnsRecord::write called on its own
CallRecordWrite ==
    /\ Calling("record_write")
    /\ \E r \in {DnsRecord_write(Head(script).arg, Cur)} :
       /\ SetBuf(r.b)
       /\ results' = Append(results, [op |-> "record_write", at |-> pos, ok |-> r.ok,
                                      err |-> r.err, val |-> r.val,
                                      endpos |-> r.b.pos])
    /\ script' = Tail(script)
    /\ UNCHANGED <<scn, top, pc, qlocals, start, res, sect, idx, msg>>

\* BytePacketBuffer::write_qname called on its own
CallWriteQname ==
    /\ Calling("write_qname")
    /\ \E r \in {write_qname(Cur, Head(script).arg)} :
       /\ SetBuf(r.b)
       /\ results' = Append(results, [op |-> "write_qname", at |-> pos, ok |-> r.ok,
                                      err |-> r.err, val |-> r.val,
                                      endpos |-> r.b.pos])
    /\ script' = Tail(script)
    /\ UNCHANGED <<scn, top, pc, qlocals, start, res, sect, idx, msg>>

----------------------------------------------------------------------------
(* What callers put in a buffer: the RFC 1035 wire layout, written here      *)
(* independently of the encoders above.                                      *)

MaxHops == 7        \* pointer chains of 0..MaxHops hops
MaxExtra == 1       \* a header declares up to MaxExtra entries too many
MaxEntries == 1     \* questions of an encoded packet

Zero == [i \in 0..(BufSize - 1) |-> 0]

Put(bf, at, bytes) ==
    [i \in DOMAIN bf |-> IF i >= at /\ i < at + Len(bytes) THEN bytes[i - at + 1]
                         ELSE bf[i]]

U16(n) == <<(n \div 256) % 256, n % 256>>
U32(n) == U16(n[1]) \o U16(n[2])

RECURSIVE WLabels(_)
WLabels(ls) ==
    IF ls = <<>> THEN <<>> ELSE <<Len(Head(ls))>> \o Head(ls) \o WLabels(Tail(ls))

WName(ls) == WLabels(ls) \o <<0>>

WPtr(off) == <<192 + (off \div 256), off % 256>>

\* the labels joined by '.'
RECURSIVE Dotted(_)
Dotted(ls) ==
    IF ls = <<>> THEN <<>>
    ELSE IF Len(ls) = 1 THEN Head(ls)
    ELSE Head(ls) \o <<Dot>> \o Dotted(Tail(ls))

WHeader(id, a, b, qd, an, ns, ar) ==
    U16(id) \o <<a, b>> \o U16(qd) \o U16(an) \o U16(ns) \o U16(ar)

WQuestion(name, typ) == name \o U16(typ) \o U16(1)

WRecord(name, typ, ttl, dlen, payload) ==
    name \o U16(typ) \o U16(1) \o U32(ttl) \o U16(dlen) \o payload

RECURSIVE Flat(_)
Flat(ss) == IF ss = <<>> THEN <<>> ELSE Head(ss) \o Flat(Tail(ss))

Call(op, arg) == [op |-> op, arg |-> arg]

\* ASCII
La == <<97>>
Lab == <<97, 98>>
LAb == <<65, 98>>
Lc == <<99>>
Lx == <<120>>
LXy == <<88, 121>>

----------------------------------------------------------------------------
(* Pointer chains: a name at 20, and links each pointing at the one before  *)

ChainTarget == <<Lab, Lc>>

LinkAt(base, pre, j) == base + (IF pre THEN 4 ELSE 2) * (j - 1)

LinkBytes(base, pre, j) ==
    (IF pre THEN WLabels(<<Lx>>) ELSE <<>>)
    \o WPtr(IF j = 1 THEN 20 ELSE LinkAt(base, pre, j - 1))

RECURSIVE PutLinks(_, _, _, _)
PutLinks(bf, base, pre, k) ==
    IF k = 0 THEN bf
    ELSE Put(PutLinks(bf, base, pre, k - 1), LinkAt(base, pre, k), LinkBytes(base, pre, k))

ChainScenario(base, pre, k) ==
    [info |-> [kind |-> "chain", hops |-> k, cycle |-> FALSE,
               first |-> IF pre THEN 2 ELSE 0,
               name |-> Lower(Dotted([j \in 1..(IF pre THEN k ELSE 0) |-> Lx]
                                     \o ChainTarget))],
     buf |-> PutLinks(Put(Zero, 20, WName(ChainTarget)), base, pre, k),
     script |-> <<Call("seek", IF k = 0 THEN 20 ELSE LinkAt(base, pre, k)),
                  Call("read_qname", 0)>>]

\* pointer cycles: a pointer to itself, two pointers at each other, and a
\* label followed by a pointer back to the label
CycleBuf ==
    Put(Put(Put(Zero, 60, WPtr(60)), 62, WPtr(64) \o WPtr(62)), 70,
        WLabels(<<Lx>>) \o WPtr(70))

CycleScenario(at) ==
    [info |-> [kind |-> "chain", hops |-> 0, cycle |-> TRUE, first |-> 0,
               name |-> <<>>],
     buf |-> CycleBuf,
     script |-> <<Call("seek", at), Call("read_qname", 0)>>]

ChainScenarios ==
    {ChainScenario(base, pre, k) : base \in {100, 480}, pre \in BOOLEAN, k \in 0..MaxHops}
    \cup {CycleScenario(at) : at \in {60, 62, 70}}

----------------------------------------------------------------------------
(* Malformed input and cursors at or past the end *)

BadBuf ==
    Put(Put(Put(Put(Put(Zero, 30, <<194, 0>>), 32, <<255, 255>>), 34, WPtr(32)),
            500, <<63>>), 508, <<3, 97, 98, 193>>)

BadScenario(op, at) ==
    [info |-> [kind |-> "bad"],
     buf |-> BadBuf,
     script |-> <<Call("seek", at), Call(op, 0)>>]

BadScenarios ==
    {BadScenario(op, at) :
        op \in {"read_qname", "question_read", "record_read", "from_buffer",
                "header_read"},
        at \in {30, 32, 34, 500, 505, 508, 510, 511, 512, 513, 600, 16383}}

----------------------------------------------------------------------------
(* One compression pointer to (a suffix of) an earlier pointer-free name, and *)
(* the same name written out in full elsewhere in the buffer                 *)

CompScenario(target, skip, prefix, place) ==
    LET off == place.t + Len(WLabels(SubSeq(target, 1, skip)))
        full == prefix \o SubSeq(target, skip + 1, Len(target))
        comp == WLabels(prefix) \o WPtr(off)
        c == IF place.c = 0 THEN BufSize - Len(comp) ELSE place.c
        u == IF place.u = 0 THEN BufSize - Len(WName(full)) ELSE place.u
    IN  [info |-> [kind |-> "comp", c |-> c, u |-> u, clen |-> Len(comp),
                   name |-> Lower(Dotted(full))],
         buf |-> Put(Put(Put(Zero, place.t, WName(target)), c, comp), u, WName(full)),
         script |-> <<Call("seek", c), Call("read_qname", 0),
                      Call("seek", u), Call("read_qname", 0)>>]

CompScenarios ==
    {CompScenario(ts[1], ts[2], prefix, place) :
        ts \in {<<<<>>, 0>>, <<<<Lab>>, 0>>, <<<<LAb, Lc>>, 0>>, <<<<LAb, Lc>>, 1>>},
        prefix \in {<<>>, <<Lx>>, <<LXy, La>>},
        place \in {[t |-> 12, c |-> 40, u |-> 80], [t |-> 1, c |-> 0, u |-> 80],
                   [t |-> 12, c |-> 40, u |-> 0], [t |-> 300, c |-> 400, u |-> 450]}}

----------------------------------------------------------------------------
(* Packets whose header declares more entries than the bytes supplied hold  *)

Q1 == [labels |-> <<LAb, Lc>>, typ |-> 1]
RA1 == [labels |-> <<Lab>>, typ |-> 1, ttl |-> <<0, 300>>, dlen |-> 4,
        payload |-> <<93, 184, 216, 34>>]
RU3 == [labels |-> <<Lc>>, typ |-> 28, ttl |-> <<0, 7>>, dlen |-> 3,
        payload |-> <<200, 201, 202>>]
RU600 == [labels |-> <<Lc>>, typ |-> 2, ttl |-> <<0, 7>>, dlen |-> 600, payload |-> <<>>]

WQ(q) == WQuestion(WName(q.labels), q.typ)
WR(r) == WRecord(WName(r.labels), r.typ, r.ttl, r.dlen, r.payload)

\* what the entry is expected to decode to
ExpQ(q) == [name |-> Lower(Dotted(q.labels)),
            qtype |-> IF q.typ = 1 THEN QA ELSE QUnknown(q.typ)]
ExpR(r) == IF r.typ = 1 THEN RecA(Lower(Dotted(r.labels)), r.payload, r.ttl)
           ELSE RecUnknown(Lower(Dotted(r.labels)), r.typ, r.dlen, r.ttl)

PacketScenario(qs, ans, s, extra) ==
    LET supplied == <<Len(qs), Len(ans), 0, 0>>
        declared == [i \in 1..4 |-> IF s = 4 THEN 65535
                                    ELSE IF i = s + 1 THEN supplied[i] + extra
                                    ELSE supplied[i]]
        bytes == WHeader(666, 129, 128, declared[1], declared[2], declared[3], declared[4])
                 \o Flat([i \in 1..Len(qs) |-> WQ(qs[i])])
                 \o Flat([i \in 1..Len(ans) |-> WR(ans[i])])
    IN  [info |-> [kind |-> "packet", supplied |-> supplied, declared |-> declared,
                   len |-> Len(bytes),
                   questions |-> [i \in 1..Len(qs) |-> ExpQ(qs[i])],
                   answers |-> [i \in 1..Len(ans) |-> ExpR(ans[i])]],
         buf |-> Put(Zero, 0, bytes),
         script |-> <<Call("from_buffer", 0)>>]

PacketScenarios ==
    {PacketScenario(qs, ans, s, extra) :
        qs \in {<<>>, <<Q1>>},
        ans \in {<<>>, <<RA1>>, <<RU3, RA1>>, <<RU600>>},
        s \in 0..3, extra \in 0..MaxExtra}
    \cup {PacketScenario(qs, ans, 4, 0) : qs \in {<<>>, <<Q1>>}, ans \in {<<>>, <<RA1>>}}

----------------------------------------------------------------------------
(* A record of a type other than 1, and the entry that follows it *)

URecScenario(p, comp, typ, d, nextq) ==
    LET name == IF comp THEN WLabels(<<LXy>>) \o WPtr(12) ELSE WName(<<LAb, Lc>>)
        dotted == IF comp THEN Dotted(<<LXy, Lab>>) ELSE Dotted(<<LAb, Lc>>)
        payload == [i \in 1..(IF d < 600 THEN d ELSE 600) |-> 200]
        rec == WRecord(name, typ, <<1, 20864>>, d, payload)
        next == p + Len(name) + 10 + d
        nbytes == IF nextq THEN WQ(Q1) ELSE WR(RA1)
    IN  [info |-> [kind |-> "urec", p |-> p, typ |-> typ, d |-> d, ttl |-> <<1, 20864>>,
                   name |-> Lower(dotted), next |-> next,
                   nextfits |-> next + Len(nbytes) <= BufSize,
                   nextval |-> IF nextq THEN ExpQ(Q1) ELSE ExpR(RA1)],
         buf |-> Put(Put(Put(Zero, 12, WName(<<Lab>>)), p, rec), next, nbytes),
         script |-> <<Call("seek", p), Call("record_read", 0),
                      Call(IF nextq THEN "question_read" ELSE "record_read", 0)>>]

URecScenarios ==
    {URecScenario(p, comp, typ, d, nextq) :
        p \in {30, 470}, comp \in BOOLEAN, typ \in {0, 2, 28, 65535},
        d \in {0, 1, 5, 600, 65535}, nextq \in BOOLEAN}

----------------------------------------------------------------------------
(* Packets to encode and decode again, and records to write and read back *)

Stub == [DnsHeader_new EXCEPT !.id = 666, !.questions = 1, !.recursion_desired = TRUE]
Full == [id |-> 65535,
         recursion_desired |-> TRUE, truncated_message |-> TRUE,
         authoritative_answer |-> TRUE, opcode |-> 15, response |-> TRUE,
         rescode |-> "REFUSED", checking_disabled |-> TRUE, authed_data |-> TRUE,
         z |-> TRUE, recursion_available |-> TRUE,
         questions |-> 0, answers |-> 7, authoritative_entries |-> 0,
         resource_entries |-> 65535]

Google == Dotted(<<Lab, Lc>>)
Mixed == Dotted(<<LAb, Lc>>)
Root == <<>>

QuestionPool ==
    {[name |-> Google, qtype |-> QA], [name |-> Mixed, qtype |-> QUnknown(28)],
     [name |-> Root, qtype |-> QA], [name |-> Root, qtype |-> QUnknown(0)]}

RecordPool ==
    {RecA(Google, <<93, 184, 216, 34>>, <<0, 300>>),
     RecA(Mixed, <<255, 0, 1, 255>>, <<65535, 65535>>),
     RecA(Root, <<10, 0, 0, 1>>, <<0, 0>>)}

\* the names of records written on their own, as lists of labels
DomainPool == {<<Lab, Lc>>, <<LAb, Lc>>, <<>>, <<La, <<>>>>, <<LXy, La, Lc>>}

SeqsUpTo(S, n) == UNION {[1..k -> S] : k \in 0..n}

Messages ==
    {[header |-> h, questions |-> qs, answers |-> ans, authorities |-> au,
      resources |-> rs] :
        h \in {Stub, Full}, qs \in SeqsUpTo(QuestionPool, MaxEntries),
        ans \in SeqsUpTo(RecordPool, 1),
        au \in {<<>>, <<RecA(Google, <<1, 2, 3, 4>>, <<0, 1>>)>>},
        rs \in {<<>>, <<RecA(Mixed, <<8, 8, 8, 8>>, <<1, 0>>)>>}}

RoundTripScenario(m) ==
    [info |-> [kind |-> "roundtrip", m |-> m],
     buf |-> Zero,
     script |-> <<Call("write", m), Call("seek", 0), Call("from_buffer", 0)>>]

RoundTripScenarios == {RoundTripScenario(m) : m \in Messages}

RecWriteScenario(p, labels, at) ==
    [info |-> [kind |-> "recwrite", p |-> p, labels |-> labels, addr |-> at[1],
               ttl |-> at[2]],
     buf |-> Zero,
     script |-> <<Call("seek", p), Call("record_write", RecA(Dotted(labels), at[1], at[2])),
                  Call("seek", p), Call("record_read", 0)>>]

RecWriteScenarios ==
    {RecWriteScenario(p, labels, at) :
        p \in {0, 12, 300, 493, 494, 505, 512, 600},
        labels \in DomainPool,
        at \in {<<<<93, 184, 216, 34>>, <<0, 300>>>>,
                <<<<255, 0, 1, 255>>, <<65535, 65535>>>>}}

----------------------------------------------------------------------------
(* Headers with every value of each flags byte *)

RECURSIVE BitsValue(_)
BitsValue(bits) ==
    IF bits = {} THEN 0
    ELSE LET k == CHOOSE k \in bits : TRUE IN Pow2(k) + BitsValue(bits \ {k})

FlagScenario(bitsA, bitsB) ==
    [info |-> [kind |-> "flags", bitsA |-> bitsA, bitsB |-> bitsB],
     buf |-> Put(Zero, 0, WHeader(4660, BitsValue(bitsA), BitsValue(bitsB), 1, 2, 3, 4)),
     script |-> <<Call("header_read", 0)>>]

FlagScenarios ==
    {FlagScenario(bitsA, {}) : bitsA \in SUBSET (0..7)}
    \cup {FlagScenario({0, 7}, bitsB) : bitsB \in SUBSET (0..7)}
    \cup {FlagScenario(0..7, 0..7), FlagScenario({3, 4, 5, 6}, {0, 2})}

----------------------------------------------------------------------------
(* Names to write and read back: labels of 0, 1, 2, 63, 64, 65, 192 and 256 *)
(* bytes, at cursors where the name fits, where it just fits and where it   *)
(* does not                                                                 *)

Rep(n) == [i \in 1..n |-> 97]

NamePool ==
    {<<>>, <<Lab, Lc>>, <<LAb, Lc>>, <<La, <<>>>>, <<La, <<>>, Lc>>, <<<<>>, La>>,
     <<Rep(63)>>, <<LXy, Rep(63)>>, <<Rep(64)>>, <<La, Rep(64)>>, <<Rep(65)>>,
     <<Rep(63), Rep(192)>>, <<Rep(256)>>}

\* the '.'-separated labels of the name Dotted(labels): the empty name has
\* one, the empty label
Parts(labels) == IF labels = <<>> THEN <<<<>>>> ELSE labels

WQnameScenario(p, labels) ==
    [info |-> [kind |-> "wqname", p |-> p, labels |-> labels, parts |-> Parts(labels)],
     buf |-> Zero,
     script |-> <<Call("seek", p), Call("write_qname", Dotted(labels)),
                  Call("seek", p), Call("read_qname", 0)>>]

WQnameScenarios ==
    {WQnameScenario(p, labels) :
        p \in {0, 100, 443, 444, 445, 446, 447, 448, 505, 509, 510, 511, 512, 600},
        labels \in NamePool}

----------------------------------------------------------------------------
(* Packets that hold records of unknown type, to encode and decode again *)

UnkA == RecUnknown(Google, 28, 16, <<0, 60>>)
UnkB == RecUnknown(Mixed, 2, 0, <<0, 0>>)
RecG == RecA(Google, <<93, 184, 216, 34>>, <<0, 300>>)
RecM == RecA(Mixed, <<8, 8, 8, 8>>, <<1, 0>>)

CountMessages ==
    {[header |-> Stub, questions |-> qs, answers |-> ans, authorities |-> au,
      resources |-> rs] :
        qs \in {<<>>, <<[name |-> Google, qtype |-> QA]>>},
        ans \in {<<>>, <<RecG>>, <<UnkA>>, <<UnkA, RecG>>},
        au \in {<<>>, <<UnkB>>},
        rs \in {<<>>, <<RecM>>}}

CountScenario(m) ==
    [info |-> [kind |-> "counts", m |-> m],
     buf |-> Zero,
     script |-> <<Call("write", m), Call("seek", 0), Call("from_buffer", 0)>>]

CountScenarios == {CountScenario(m) : m \in CountMessages}

----------------------------------------------------------------------------
(* Headers to encode with every u8 value of the public field opcode *)

OpcodeHeader(op, resp, low) ==
    [DnsHeader_new EXCEPT !.id = 666, !.opcode = op, !.response = resp,
                          !.recursion_desired = low, !.truncated_message = low,
                          !.authoritative_answer = low]

OpcodeScenario(op, resp, low) ==
    [info |-> [kind |-> "opcode", opcode |-> op, response |-> resp, low |-> low],
     buf |-> Zero,
     script |-> <<Call("write", [DnsPacket_new EXCEPT
                                   !.header = OpcodeHeader(op, resp, low)]),
                  Call("seek", 0), Call("header_read", 0)>>]

OpcodeScenarios ==
    {OpcodeScenario(op, FALSE, FALSE) : op \in 0..255}
    \cup {OpcodeScenario(op, resp, low) :
            op \in {0, 1, 15, 16, 31, 32, 128, 255}, resp \in BOOLEAN, low \in BOOLEAN}

----------------------------------------------------------------------------
(* The specification *)

Begin(s) ==
    /\ scn = s.info
    /\ buf = s.buf
    /\ pos = 0
    /\ touched = -1
    /\ script = s.script
    /\ top = "none"
    /\ pc = "idle"
    /\ qpos = 0
    /\ jumped = FALSE
    /\ jumps_performed = 0
    /\ delim = <<>>
    /\ outstr = <<>>
    /\ start = 0
    /\ res = DnsPacket_new
    /\ sect = 0
    /\ idx = 0
    /\ msg = DnsPacket_new
    /\ results = <<>>

Init ==
    \/ \E s \in ChainScenarios : Begin(s)
    \/ \E s \in BadScenarios : Begin(s)
    \/ \E s \in CompScenarios : Begin(s)
    \/ \E s \in PacketScenarios : Begin(s)
    \/ \E s \in URecScenarios : Begin(s)
    \/ \E s \in RoundTripScenarios : Begin(s)
    \/ \E s \in RecWriteScenarios : Begin(s)
    \/ \E s \in FlagScenarios : Begin(s)
    \/ \E s \in WQnameScenarios : Begin(s)
    \/ \E s \in CountScenarios : Begin(s)
    \/ \E s \in OpcodeScenarios : Begin(s)

Next ==
    \/ SetPos
    \/ CallReadQname
    \/ QnameStep
    \/ QuestionRest
    \/ RecordRest
    \/ CallHeaderRead
    \/ HeaderRead
    \/ SectionLoop
    \/ CallWrite
    \/ WriteHeader
    \/ WriteLoop
    \/ CallRecordWrite
    \/ CallWriteQname

Spec == Init /\ [][Next]_vars

\* the calls are plain sequential code: a call that can take a step takes it
LiveSpec == Spec /\ WF_vars(Next)

----------------------------------------------------------------------------
(* The claims *)

Returned(n) == Len(results) >= n

\* C1 (as claimed): a packet of header fields, questions with ASCII names and
\* A records that DnsPacket::write encodes into a fresh buffer is decoded by
\* DnsPacket::from_buffer from position 0 to the same header fields, the same
\* questions and the same A records in the same sections, names lowercased.
SameFlags(h, g) ==
    /\ h.id = g.id
    /\ h.recursion_desired = g.recursion_desired
    /\ h.truncated_message = g.truncated_message
    /\ h.authoritative_answer = g.authoritative_answer
    /\ h.opcode = g.opcode
    /\ h.response = g.response
    /\ h.rescode = g.rescode
    /\ h.checking_disabled = g.checking_disabled
    /\ h.authed_data = g.authed_data
    /\ h.z = g.z
    /\ h.recursion_available = g.recursion_available

LowerQ(q) == [q EXCEPT !.name = Lower(@)]
LowerR(r) == [r EXCEPT !.domain = Lower(@)]
LowerAll(es, F(_)) == [i \in 1..Len(es) |-> F(es[i])]

C1_RoundTrip ==
    (scn.kind = "roundtrip" /\ Returned(2) /\ results[1].ok) =>
        /\ results[2].ok
        /\ SameFlags(results[2].val.header, scn.m.header)
        /\ results[2].val.questions = LowerAll(scn.m.questions, LowerQ)
        /\ results[2].val.answers = LowerAll(scn.m.answers, LowerR)
        /\ results[2].val.authorities = LowerAll(scn.m.authorities, LowerR)
        /\ results[2].val.resources = LowerAll(scn.m.resources, LowerR)

\* C2 (as claimed, for the operations that complete): a decode or encode
\* operation that starts with the cursor within [0, 512] and returns Ok
\* leaves it within [0, 512].
C2_CursorBound ==
    \A i \in 1..Len(results) :
        (results[i].ok /\ results[i].at <= 512) => results[i].endpos <= 512

\* C3 (as claimed): the byte array is indexed only at 0..511, and an access
\* out of range is always reported as an 'End of buffer' error.
OtherErrors == {"Limit of 5 jumps exceeded", "Label exceeds 63 character limit"}

C3_Original ==
    /\ touched <= 511
    /\ \A i \in 1..Len(results) :
         (~results[i].ok /\ results[i].err \notin OtherErrors)
            => results[i].err = "End of buffer"

\* C3 (amended): the byte array is indexed only at 0..511, whatever the
\* buffer holds and wherever the cursor starts; an access out of range is
\* reported before the array is touched, as 'End of buffer' by the decoding
\* accessors and as 'End of buf' by the encoding accessor, never as a panic;
\* a call that starts with the cursor at 512 or more touches nothing.
Decoders == {"read_qname", "question_read", "record_read", "from_buffer", "header_read"}

C3_NoOverrun ==
    /\ touched <= 511
    /\ \A i \in 1..Len(results) :
         (~results[i].ok /\ results[i].err \notin OtherErrors)
            => results[i].err = (IF results[i].op \in Decoders THEN "End of buffer"
                                 ELSE "End of buf")
    /\ (Returned(1) /\ results[1].at >= 512) => (~results[1].ok /\ touched = -1)
    /\ (scn.kind = "bad" /\ Returned(1) /\ results[1].op = "read_qname"
        /\ results[1].at \in {30, 32, 34}) => (~results[1].ok /\ touched <= 35)

\* a pointer whose offset is 512 has been followed and refused
C3_Witness ==
    /\ scn.kind = "bad"
    /\ Returned(1)
    /\ results[1].op = "read_qname"
    /\ results[1].at = 30
    /\ results[1].err = "End of buffer"
    /\ touched = 31

\* C4: read_qname on a chain of more than 5 compression pointers, or on a
\* pointer cycle, fails with the jump-limit error and returns no name; on a
\* chain of at most 5 pointers that ends in a well-formed name it returns
\* the name.
C4_JumpBound ==
    (scn.kind = "chain" /\ Returned(1)) =>
        IF scn.cycle \/ scn.hops > 5
        THEN /\ ~results[1].ok
             /\ results[1].err = "Limit of 5 jumps exceeded"
             /\ results[1].val = 0
        ELSE /\ results[1].ok
             /\ results[1].val = scn.name

C4_Witness ==
    /\ scn.kind = "chain"
    /\ scn.hops = 6
    /\ Returned(1)
    /\ results[1].err = "Limit of 5 jumps exceeded"
    /\ jumps_performed = 6

\* C5: every call returns: DnsPacket::from_buffer (and each read_qname in
\* it) on every buffer and every four header counts, and DnsPacket::write on
\* every packet.
C5_Termination == (top # "none") ~> (top = "none")

\* from_buffer has returned on a header that declares 65535 entries four times
C5_Witness ==
    /\ scn.kind = "packet"
    /\ scn.declared = <<65535, 65535, 65535, 65535>>
    /\ Returned(1)
    /\ top = "none"

\* C6 (as claimed): when the header declares more entries than the bytes
\* supplied hold, from_buffer fails with an end-of-buffer error.
C6_OverDeclared ==
    (scn.kind = "packet" /\ Returned(1)
     /\ \E i \in 1..4 : scn.declared[i] > scn.supplied[i])
        => (~results[1].ok /\ results[1].err = "End of buffer")

\* C7: a successful DnsRecord::read of a record whose type is not 1 returns
\* UNKNOWN with that type, data_len and ttl and leaves the cursor after the
\* name, the 10 fixed bytes and data_len payload bytes, so that the entry
\* that follows is decoded from there.
C7_UnknownRecord ==
    (scn.kind = "urec" /\ Returned(1) /\ results[1].ok) =>
        /\ results[1].val = RecUnknown(scn.name, scn.typ, scn.d, scn.ttl)
        /\ results[1].endpos = scn.next
        /\ Returned(2) =>
             /\ results[2].at = scn.next
             /\ scn.nextfits => (results[2].ok /\ results[2].val = scn.nextval)

C7_Witness ==
    /\ scn.kind = "urec"
    /\ scn.d = 5
    /\ Returned(2)
    /\ results[1].ok
    /\ results[1].val.t = "UNKNOWN"
    /\ results[2].ok

\* C8: a name of zero or more labels and one pointer to an earlier, fully
\* written, pointer-free name decodes to the same dotted string as the name
\* written out in full.
C8_Compression ==
    (scn.kind = "comp" /\ Returned(2)) =>
        /\ results[1].ok
        /\ results[2].ok
        /\ results[1].val = results[2].val
        /\ results[1].val = scn.name

C8_Witness ==
    /\ scn.kind = "comp"
    /\ Returned(2)
    /\ results[1].ok
    /\ results[1].endpos = scn.c + scn.clen
    /\ scn.clen > 2
    /\ Len(results[1].val) > 3

\* C9: DnsHeader::read takes recursion_desired, truncated_message,
\* authoritative_answer, opcode and response from bits 0, 1, 2, 3-6 and 7 of
\* the first flags byte, and rescode (6-15 read as NOERROR),
\* checking_disabled, authed_data, z and recursion_available from bits 0-3,
\* 4, 5, 6 and 7 of the second; bits 0 and 7 of the first byte alone give
\* recursion_desired and response and nothing else.
BitsField(bits, lo, hi) == BitsValue({k - lo : k \in bits \cap lo..hi})

C9_HeaderFlags ==
    (scn.kind = "flags" /\ Returned(1)) =>
        /\ results[1].ok
        /\ results[1].val.recursion_desired = (0 \in scn.bitsA)
        /\ results[1].val.truncated_message = (1 \in scn.bitsA)
        /\ results[1].val.authoritative_answer = (2 \in scn.bitsA)
        /\ results[1].val.opcode = BitsField(scn.bitsA, 3, 6)
        /\ results[1].val.response = (7 \in scn.bitsA)
        /\ results[1].val.rescode =
             (CASE BitsField(scn.bitsB, 0, 3) = 1 -> "FORMERR"
                [] BitsField(scn.bitsB, 0, 3) = 2 -> "SERVFAIL"
                [] BitsField(scn.bitsB, 0, 3) = 3 -> "NXDOMAIN"
                [] BitsField(scn.bitsB, 0, 3) = 4 -> "NOTIMP"
                [] BitsField(scn.bitsB, 0, 3) = 5 -> "REFUSED"
                [] OTHER -> "NOERROR")
        /\ results[1].val.checking_disabled = (4 \in scn.bitsB)
        /\ results[1].val.authed_data = (5 \in scn.bitsB)
        /\ results[1].val.z = (6 \in scn.bitsB)
        /\ results[1].val.recursion_available = (7 \in scn.bitsB)
        /\ (scn.bitsA = {0, 7} /\ scn.bitsB = {}) =>
              results[1].val = [DnsHeader_new EXCEPT
                                  !.id = 4660, !.recursion_desired = TRUE,
                                  !.response = TRUE, !.questions = 1, !.answers = 2,
                                  !.authoritative_entries = 3,
                                  !.resource_entries = 4]

C9_Witness ==
    /\ scn.kind = "flags"
    /\ scn.bitsA = {0, 7}
    /\ scn.bitsB = {}
    /\ Returned(1)
    /\ results[1].val.recursion_desired
    /\ results[1].val.response

\* C10 (as claimed, the domain compared after lowercasing): DnsRecord::write
\* of an A record at cursor p writes the labels of the domain, a zero, type 1,
\* class 1, the ttl, length 4 and the four octets, returns the number of
\* bytes written, and DnsRecord::read from p returns the same record.
C10_ARecordLayout ==
    (scn.kind = "recwrite" /\ Returned(2) /\ results[1].ok) =>
        /\ results[1].val = results[1].endpos - scn.p
        /\ [i \in 1..results[1].val |-> buf[scn.p + i - 1]]
              = WRecord(WName(scn.labels), 1, scn.ttl, 4, scn.addr)
        /\ results[2].ok
        /\ results[2].val = RecA(Lower(Dotted(scn.labels)), scn.addr, scn.ttl)

\* C11: while read_qname runs, the shared cursor changes only when the first
\* pointer of the name is met at local position q (to q + 2, and the name
\* has jumped from then on, unless the call fails on the spot) or, in a name
\* without a pointer, at the zero terminator (to the position after it, and
\* the name is finished); once the name has jumped it stays jumped; a
\* successful read_qname leaves the cursor at or after where it began, and
\* on a chain of one or more pointers just after the pointer it began at.
C11_CursorOnce ==
    /\ [][pc = "qname" =>
            /\ \/ pos' = pos
               \/ /\ ~jumped
                  /\ buf[qpos] >= 192
                  /\ pos' = qpos + 2
                  /\ \/ pc' = "qname" /\ jumped'
                     \/ top' = "none" /\ ~results'[Len(results')].ok
               \/ /\ ~jumped
                  /\ buf[qpos] = 0
                  /\ pos' = qpos + 1
                  /\ pc' # "qname"
            /\ (jumped /\ pc' = "qname") => jumped'
            /\ (jumped /\ pc' # "qname") => pos' = pos]_vars
    /\ [](\A i \in 1..Len(results) :
            (results[i].op = "read_qname" /\ results[i].ok)
                => results[i].endpos >= results[i].at)
    /\ []((scn.kind = "chain" /\ Returned(1) /\ results[1].ok /\ scn.hops > 0)
            => results[1].endpos = results[1].at + scn.first + 2)

\* a chain of three pointers has been followed and the cursor is just after
\* the first of them
C11_Witness ==
    /\ scn.kind = "chain"
    /\ scn.hops = 3
    /\ Returned(1)
    /\ results[1].ok
    /\ jumps_performed = 3
    /\ pos = results[1].at + scn.first + 2

\* C12: write_qname of a name at cursor p fails when one of its labels is
\* longer than 63 bytes (with the label error, or with the end-of-buffer
\* error of write when the labels before it do not fit) or when the name does
\* not fit in the buffer (with that end-of-buffer error), and otherwise
\* succeeds; it writes, label after label, a length byte in 0..63 and the
\* bytes of the label, and then a zero; whether it succeeds or fails, what it
\* has written is the beginning of that layout, no length byte has its two
\* top bits set, and nothing else in the buffer has changed.
C12_NoPointer ==
    (scn.kind = "wqname" /\ Returned(1)) =>
        LET r == results[1]
            E == WName(scn.parts)
            long == \E i \in 1..Len(scn.parts) : Len(scn.parts[i]) > 63
            n == r.endpos - scn.p
        IN  /\ long => ~r.ok
            /\ (~long /\ scn.p + Len(E) <= 512) => r.ok
            /\ r.ok => /\ n = Len(E)
                       /\ \A i \in 1..Len(scn.parts) :
                             /\ Len(scn.parts[i]) \in 0..63
                             /\ BitAnd(Len(scn.parts[i]), 192) # 192
            /\ ~r.ok => /\ r.err \in {"Label exceeds 63 character limit", "End of buf"}
                        /\ r.err = "Label exceeds 63 character limit" => long
                        /\ r.err = "End of buf" => scn.p + Len(E) > 512
            /\ n >= 0
            /\ n <= Len(E)
            /\ \A i \in 0..511 :
                 buf[i] = IF i >= scn.p /\ i < scn.p + n THEN E[i - scn.p + 1] ELSE 0

\* a label of 63 bytes has been written after a shorter one
C12_Witness ==
    /\ scn.kind = "wqname"
    /\ scn.labels = <<LXy, Rep(63)>>
    /\ scn.p = 100
    /\ Returned(1)
    /\ results[1].ok
    /\ buf[103] = 63
    /\ pos = 168

\* C13 (as claimed): after a successful DnsPacket::write of a packet, unknown
\* records included, the four counts in the header written are the numbers
\* of entries of the four sections, every entry counted has been written to
\* the buffer (a question takes at least 5 bytes and a record at least 11),
\* and DnsPacket::from_buffer on the result returns four sections of the
\* lengths declared.
SectionLens(m) ==
    <<Len(m.questions), Len(m.answers), Len(m.authorities), Len(m.resources)>>

C13_CountsMatch ==
    (scn.kind = "counts" /\ Returned(1) /\ results[1].ok) =>
        LET n == SectionLens(scn.m) IN
        /\ \A i \in 1..4 : buf[2 + 2 * i] = 0 /\ buf[3 + 2 * i] = n[i]
        /\ results[1].endpos - results[1].at >= 12 + 5 * n[1] + 11 * (n[2] + n[3] + n[4])
        /\ Returned(2) => /\ results[2].ok
                          /\ SectionLens(results[2].val) = n

\* C14 (as claimed): a name that write_qname accepts at cursor p, the empty
\* name, a name with a trailing dot and a name with an empty inner label
\* included, is read back by read_qname from p as the lowercased name, with
\* the cursor ending where the write ended.
C14_NameSymmetry ==
    (scn.kind = "wqname" /\ Returned(2) /\ results[1].ok) =>
        /\ results[2].ok
        /\ results[2].endpos = results[1].endpos
        /\ results[2].val = Lower(Dotted(scn.labels))

\* C15 (as claimed): whatever u8 value the field opcode holds, the first
\* flags byte that DnsHeader::write writes has bit 7 equal to response and
\* bits 0, 1 and 2 equal to recursion_desired, truncated_message and
\* authoritative_answer, and DnsHeader::read of the header written returns
\* the same response flag.
C15_OpcodeBits ==
    (scn.kind = "opcode" /\ Returned(1) /\ results[1].ok) =>
        /\ (buf[2] \div 128) % 2 = BoolU8(scn.response)
        /\ buf[2] % 8 = (IF scn.low THEN 7 ELSE 0)
        /\ Returned(2) => /\ results[2].ok
                          /\ results[2].val.response = scn.response

====
